---- MODULE Spec2Model ----
(***************************************************************************)
(* StockMaster Pro (src/StockBis/app.py): a Flask application over two     *)
(* SQLAlchemy tables, Product and Sale.  The state is the committed        *)
(* content of the two tables, the clock read by datetime.utcnow(), the     *)
(* message flashed by the last handler and the page it rendered.  Each     *)
(* route handler is one action.  Prices are floats in the code; the model  *)
(* draws them from small integers, on which float arithmetic is exact.     *)
(* Time is counted in days.                                                *)
(***************************************************************************)
EXTENDS Integers, Sequences, FiniteSets, TLC

\* ---------------------------------------------------------------- bounds
\* cap on the Sale table under Spec, and under SpecReport
MaxSales == 1
MaxWeekSales == 2
MaxStock == 2
MaxQty == 2
MaxPrice == 2

\* ------------------------------------------------------ program constants
\* timedelta(days=7) of dashboard()
WindowDays == 7

\* the clock is followed over two windows
Horizon == 2 * WindowDays

\* ---------------------------------------------------------- input domains
\* int(request.form.get('stock_quantity', 0)) accepts any integer
StockInputs == {-1, 0, MaxStock}
\* int(request.form.get('quantity_sold')) accepts any integer
QtyInputs == {-1, 0, 1, MaxQty}
\* float(request.form.get('buying_price', 0)), float(... 'selling_price' ...)
PriceInputs == {1, MaxPrice}
\* request.form.get('name') is None when the field is missing
NoName == "None"
NameInputs == {"n", NoName}
\* URL parameter <int:product_id> / form field product_id
IdInputs == {1, 2}
\* the two request threads of the threaded development server
Workers == {"w1", "w2"}

VARIABLES
    products,   \* table product: id -> row
    sales,      \* table sale: sales[i] is the row with id i
    now,        \* datetime.utcnow(), in days
    flash,      \* the message flashed by the handler
    view,       \* the page rendered by the handler (dashboard figures)
    pc,         \* position of each concurrent process_sale request
    local       \* locals of each concurrent process_sale request

vars == <<products, sales, now, flash, view, pc, local>>

\* ------------------------------------------------------------------ rows
\* class Product
Product(name, stock_quantity, buying_price, selling_price) ==
    [name |-> name, stock_quantity |-> stock_quantity,
     buying_price |-> buying_price, selling_price |-> selling_price]

\* class Sale; sale_date defaults to datetime.utcnow at insert
Sale(product_id, quantity_sold, sale_date, profit_recorded) ==
    [product_id |-> product_id, quantity_sold |-> quantity_sold,
     sale_date |-> sale_date, profit_recorded |-> profit_recorded]

Flash(category, text, value) ==
    [category |-> category, text |-> text, value |-> value]

NoFlash == Flash("none", "", 0)
NoView == [page |-> "redirect", weekly_revenue |-> 0, weekly_profit |-> 0]
NoLocal == [product_id |-> 0, quantity_sold |-> 0, stock_read |-> 0, profit |-> 0]

\* ------------------------------------------------------------ the store
SetMax(S) == CHOOSE x \in S : \A y \in S : y <= x

\* id INTEGER PRIMARY KEY without AUTOINCREMENT: SQLite gives max(rowid)+1
NextProductId(prods) ==
    IF DOMAIN prods = {} THEN 1 ELSE SetMax(DOMAIN prods) + 1

\* Product.sales: the Sale rows whose product_id is this product's id
ProductSales(sls, product_id) ==
    {i \in 1 .. Len(sls) : sls[i].product_id = product_id}

\* INSERT INTO product
InsertProduct(prods, row) ==
    [i \in DOMAIN prods \cup {NextProductId(prods)} |->
        IF i \in DOMAIN prods THEN prods[i] ELSE row]

\* DELETE FROM product WHERE id = product_id
RemoveProduct(prods, product_id) ==
    [i \in DOMAIN prods \ {product_id} |-> prods[i]]

\* -------------------------------------------------------- process_sale
\* variants of the stock check: <= for <, an off-by-one, the operands swapped
InsufficientStockStrict(stock_quantity, quantity_sold) ==
    stock_quantity <= quantity_sold

InsufficientStockLax(stock_quantity, quantity_sold) ==
    stock_quantity + 1 < quantity_sold

InsufficientStockSwapped(stock_quantity, quantity_sold) ==
    quantity_sold < stock_quantity

\* if product.stock_quantity < quantity_sold: reject
InsufficientStock(stock_quantity, quantity_sold) ==
    stock_quantity < quantity_sold

\* variant: the message carries the requested quantity
StockMessageRequested(stock_quantity, quantity_sold) ==
    Flash("danger", "Stock insuffisant", quantity_sold)

\* flash(f'Stock insuffisant ! Disponible : {product.stock_quantity}', 'danger')
StockMessage(stock_quantity, quantity_sold) ==
    Flash("danger", "Stock insuffisant", stock_quantity)

\* profit = (product.selling_price - product.buying_price) * quantity_sold
SaleProfit(product, quantity_sold) ==
    (product.selling_price - product.buying_price) * quantity_sold

\* variant: the stock is written and the new Sale is never added to the session
CommitSaleNoInsert(prods, sls, product_id, stock_read, quantity_sold, profit, date) ==
    [products |-> [prods EXCEPT
                     ![product_id].stock_quantity = stock_read - quantity_sold],
     sales |-> sls]

\* product.stock_quantity -= quantity_sold on the loaded object, so the
\* UPDATE writes stock_read - quantity_sold; db.session.add(new_sale);
\* db.session.commit(): the UPDATE and the INSERT are one transaction
CommitSale(prods, sls, product_id, stock_read, quantity_sold, profit, date) ==
    [products |-> [prods EXCEPT
                     ![product_id].stock_quantity = stock_read - quantity_sold],
     sales |-> Append(sls, Sale(product_id, quantity_sold, date, profit))]

\* POST /sale/process, answered without interleaving
ProcessSale(product_id, quantity_sold, form_ok) ==
    /\ view' = NoView
    /\ UNCHANGED <<now, pc, local>>
    /\ IF ~form_ok
       THEN \* int() raises ValueError/TypeError, caught by except Exception
            /\ flash' = Flash("danger", "Erreur lors de la vente", 0)
            /\ UNCHANGED <<products, sales>>
       ELSE IF product_id \notin DOMAIN products
               THEN \* get_or_404 raises NotFound, caught by except Exception
                    /\ flash' = Flash("danger", "Erreur lors de la vente", 0)
                    /\ UNCHANGED <<products, sales>>
               ELSE LET product == products[product_id] IN
                    IF InsufficientStock(product.stock_quantity, quantity_sold)
                    THEN /\ flash' = StockMessage(product.stock_quantity, quantity_sold)
                         /\ UNCHANGED <<products, sales>>
                    ELSE LET profit == SaleProfit(product, quantity_sold)
                             db == CommitSale(products, sales, product_id,
                                              product.stock_quantity,
                                              quantity_sold, profit, now)
                         IN /\ products' = db.products
                            /\ sales' = db.sales
                            /\ flash' = Flash("success", "Vente enregistree", profit)

\* ---------------------------------------------------------- add_product
\* name is nullable=False: a missing name fails the INSERT
AddProduct(name, stock_quantity, buying_price, selling_price, form_ok) ==
    /\ view' = NoView
    /\ UNCHANGED <<sales, now, pc, local>>
    /\ IF ~form_ok \/ name = NoName
       THEN /\ flash' = Flash("danger", "Erreur lors de l'ajout du produit", 0)
            /\ UNCHANGED products
       ELSE /\ NextProductId(products) \in IdInputs
            /\ products' = InsertProduct(products,
                   Product(name, stock_quantity, buying_price, selling_price))
            /\ flash' = Flash("success", "Produit ajoute", 0)

\* --------------------------------------------------------- edit_product
\* variant: the edit recomputes the profit of the product's recorded sales
CommitEditReprice(prods, sls, product_id, row) ==
    [products |-> [prods EXCEPT ![product_id] = row],
     sales |-> [i \in DOMAIN sls |->
                  IF sls[i].product_id = product_id
                  THEN [sls[i] EXCEPT !.profit_recorded =
                          (row.selling_price - row.buying_price) * sls[i].quantity_sold]
                  ELSE sls[i]]]

\* the four assignments and db.session.commit(); the Sale table is not touched
CommitEdit(prods, sls, product_id, row) ==
    [products |-> [prods EXCEPT ![product_id] = row], sales |-> sls]

EditProduct(product_id, name, stock_quantity, buying_price, selling_price, form_ok) ==
    /\ view' = NoView
    /\ UNCHANGED <<now, pc, local>>
    /\ IF product_id \notin DOMAIN products \/ ~form_ok \/ name = NoName
       THEN \* NotFound, ValueError or IntegrityError: nothing is committed
            /\ flash' = Flash("danger", "Erreur lors de la modification", 0)
            /\ UNCHANGED <<products, sales>>
       ELSE LET db == CommitEdit(products, sales, product_id,
                        Product(name, stock_quantity, buying_price, selling_price))
            IN /\ products' = db.products
               /\ sales' = db.sales
               /\ flash' = Flash("success", "Produit modifie", 0)

\* ------------------------------------------------------- delete_product
\* variant: the delete commits whether or not the product has sales
DeleteCommitsAlways(sls, product_id) ==
    TRUE

\* Product.sales has no delete cascade: on db.session.delete(product) the
\* flush sets product_id of the product's sales to NULL, and Sale.product_id
\* is nullable=False, so the commit raises IntegrityError when the product
\* has sales; the transaction is rolled back
DeleteCommits(sls, product_id) ==
    ProductSales(sls, product_id) = {}

DeleteProduct(product_id) ==
    /\ view' = NoView
    /\ UNCHANGED <<sales, now, pc, local>>
    /\ IF product_id \in DOMAIN products /\ DeleteCommits(sales, product_id)
       THEN /\ products' = RemoveProduct(products, product_id)
            /\ flash' = Flash("success", "Produit supprime", 0)
       ELSE \* NotFound or IntegrityError, caught by except Exception
            /\ flash' = Flash("danger", "Erreur lors de la suppression", 0)
            /\ UNCHANGED products

\* ------------------------------------------------------------ inventory
\* Product.query.all()
InventoryListing(prods) ==
    {[id |-> i, product |-> prods[i]] : i \in DOMAIN prods}

\* ------------------------------------------------------------ dashboard
\* variant: > for >=
InWindowStrict(sale_date, week_ago) ==
    sale_date > week_ago

\* Sale.query.filter(Sale.sale_date >= week_ago).all()
InWindow(sale_date, week_ago) ==
    sale_date >= week_ago

WeeklySales(sls, utcnow) ==
    LET week_ago == utcnow - WindowDays
    IN SelectSeq(sls, LAMBDA s : InWindow(s.sale_date, week_ago))

\* for sale in weekly_sales: product = Product.query.get(sale.product_id)
\*     weekly_revenue += product.selling_price * sale.quantity_sold
RECURSIVE WeeklyRevenue(_, _)
WeeklyRevenue(weekly_sales, prods) ==
    IF weekly_sales = <<>> THEN 0
    ELSE LET n == Len(weekly_sales)
             sale == weekly_sales[n]
         IN WeeklyRevenue(SubSeq(weekly_sales, 1, n - 1), prods)
            + prods[sale.product_id].selling_price * sale.quantity_sold

\* sum(sale.profit_recorded for sale in weekly_sales)
RECURSIVE WeeklyProfit(_)
WeeklyProfit(weekly_sales) ==
    IF weekly_sales = <<>> THEN 0
    ELSE Head(weekly_sales).profit_recorded + WeeklyProfit(Tail(weekly_sales))

\* GET /
Dashboard ==
    /\ LET weekly_sales == WeeklySales(sales, now) IN
       IF \E i \in 1 .. Len(weekly_sales) :
              weekly_sales[i].product_id \notin DOMAIN products
       THEN \* Product.query.get returns None: AttributeError, no except
            view' = [page |-> "error500", weekly_revenue |-> 0, weekly_profit |-> 0]
       ELSE view' = [page |-> "dashboard",
                     weekly_revenue |-> WeeklyRevenue(weekly_sales, products),
                     weekly_profit |-> WeeklyProfit(weekly_sales)]
    /\ UNCHANGED <<products, sales, now, flash, pc, local>>

\* the clock of datetime.utcnow() advances
Tick ==
    /\ now < Horizon
    /\ now' = now + WindowDays
    /\ UNCHANGED <<products, sales, flash, view, pc, local>>

\* ------------------------------------------------------- specification
\* init_db(): db.create_all() on an empty stock.db
Init ==
    /\ products = <<>>
    /\ sales = <<>>
    /\ now = 0
    /\ flash = NoFlash
    /\ view = NoView
    /\ pc = [w \in Workers |-> "idle"]
    /\ local = [w \in Workers |-> NoLocal]

\* ------------------------------------------------ concurrent process_sale
\* Two requests run process_sale on separate threads and sessions.  A request
\* reads the product row (line 209; pysqlite opens no transaction for the
\* SELECT), checks the stock on the loaded object (212), then commits (231):
\* the flush writes the stock computed from the value read, and the INSERT.
Load(w, product_id, quantity_sold) ==
    /\ pc[w] = "idle"
    /\ IF product_id \notin DOMAIN products
       THEN /\ pc' = [pc EXCEPT ![w] = "done"]
            /\ flash' = Flash("danger", "Erreur lors de la vente", 0)
            /\ UNCHANGED local
       ELSE /\ pc' = [pc EXCEPT ![w] = "loaded"]
            /\ local' = [local EXCEPT ![w] =
                   [product_id |-> product_id, quantity_sold |-> quantity_sold,
                    stock_read |-> products[product_id].stock_quantity,
                    profit |-> SaleProfit(products[product_id], quantity_sold)]]
            /\ UNCHANGED flash
    /\ UNCHANGED <<products, sales, now, view>>

Check(w) ==
    /\ pc[w] = "loaded"
    /\ IF InsufficientStock(local[w].stock_read, local[w].quantity_sold)
       THEN /\ pc' = [pc EXCEPT ![w] = "done"]
            /\ flash' = StockMessage(local[w].stock_read, local[w].quantity_sold)
       ELSE /\ pc' = [pc EXCEPT ![w] = "checked"]
            /\ UNCHANGED flash
    /\ UNCHANGED <<products, sales, now, view, local>>

Commit(w) ==
    /\ pc[w] = "checked"
    /\ LET db == CommitSale(products, sales, local[w].product_id,
                            local[w].stock_read, local[w].quantity_sold,
                            local[w].profit, now)
       IN /\ products' = db.products
          /\ sales' = db.sales
    /\ pc' = [pc EXCEPT ![w] = "sold"]
    /\ flash' = Flash("success", "Vente enregistree", local[w].profit)
    /\ UNCHANGED <<now, view, local>>

\* a catalogue of one product, as one add_product request leaves it
InitConc ==
    /\ \E st \in StockInputs, b \in PriceInputs, s \in PriceInputs :
          products = InsertProduct(<<>>, Product("n", st, b, s))
    /\ sales = <<>>
    /\ now = 0
    /\ flash = NoFlash
    /\ view = NoView
    /\ pc = [w \in Workers |-> "idle"]
    /\ local = [w \in Workers |-> NoLocal]

NextConc ==
    \/ \E w \in Workers, id \in IdInputs, q \in QtyInputs : Load(w, id, q)
    \/ \E w \in Workers : Check(w)
    \/ \E w \in Workers : Commit(w)

SpecConc == InitConc /\ [][NextConc]_vars

\* ------------------------------------------------------------- requests
\* the form inputs: a well-formed form, a form without a name, a form whose
\* numbers do not parse
Sell ==
    /\ Len(sales) < MaxSales
    /\ \/ \E id \in IdInputs, q \in QtyInputs : ProcessSale(id, q, TRUE)
       \/ \E id \in IdInputs : ProcessSale(id, 0, FALSE)

Add ==
    \/ \E st \in StockInputs, b \in PriceInputs, s \in PriceInputs :
          AddProduct("n", st, b, s, TRUE)
    \/ AddProduct(NoName, 0, 1, 1, TRUE)
    \/ AddProduct("n", 0, 1, 1, FALSE)

Edit ==
    \/ \E id \in IdInputs, st \in StockInputs, b \in PriceInputs, s \in PriceInputs :
          EditProduct(id, "n", st, b, s, TRUE)
    \/ \E id \in IdInputs : EditProduct(id, NoName, 0, 1, 1, TRUE)
    \/ \E id \in IdInputs : EditProduct(id, "n", 0, 1, 1, FALSE)

Delete == \E id \in IdInputs : DeleteProduct(id)

Next ==
    \/ Sell
    \/ Add
    \/ Edit
    \/ Delete

Spec == Init /\ [][Next]_vars

\* the reporting runs: products are stocked at MaxStock and bought at 1, sales
\* are of 1 or MaxQty units, the clock advances and the dashboard is read
ReportSell ==
    /\ Len(sales) < MaxWeekSales
    /\ \E id \in IdInputs, q \in {1, MaxQty} : ProcessSale(id, q, TRUE)

ReportAdd == \E s \in PriceInputs : AddProduct("n", MaxStock, 1, s, TRUE)

ReportEdit ==
    \E id \in IdInputs, s \in PriceInputs : EditProduct(id, "n", MaxStock, 1, s, TRUE)

NextReport ==
    \/ ReportSell
    \/ ReportAdd
    \/ ReportEdit
    \/ Delete
    \/ Dashboard
    \/ Tick

SpecReport == Init /\ [][NextReport]_vars


\* ================================================================ claims
LastSale == sales[Len(sales)]

RECURSIVE SumOf(_, _)
SumOf(f, S) ==
    IF S = {} THEN 0
    ELSE LET x == CHOOSE y \in S : TRUE IN f[x] + SumOf(f, S \ {x})

\* C1: a sale of q <= stock units of an existing product P takes exactly q
\* from P's stock and appends exactly one Sale, of product P, quantity q and
\* profit (selling_price - buying_price) * q at the prices of that moment;
\* the stock of every other product is unchanged.
SaleDecrementsStockAndRecordsProfit ==
    [][\A p \in DOMAIN products, q \in QtyInputs :
          (q <= products[p].stock_quantity /\ ProcessSale(p, q, TRUE)) =>
             /\ DOMAIN products' = DOMAIN products
             /\ products'[p].stock_quantity = products[p].stock_quantity - q
             /\ Len(sales') = Len(sales) + 1
             /\ SubSeq(sales', 1, Len(sales)) = sales
             /\ sales'[Len(sales')].product_id = p
             /\ sales'[Len(sales')].quantity_sold = q
             /\ sales'[Len(sales')].profit_recorded =
                  (products[p].selling_price - products[p].buying_price) * q
             /\ \A o \in DOMAIN products \ {p} :
                  products'[o].stock_quantity = products[o].stock_quantity]_vars

\* a sale of MaxQty units at a non-zero margin was recorded while a second
\* product is in the catalogue
SaleRecordedBesideOtherProduct ==
    /\ Cardinality(DOMAIN products) = 2
    /\ flash.text = "Vente enregistree"
    /\ sales # <<>>
    /\ LastSale.quantity_sold = MaxQty
    /\ LastSale.profit_recorded # 0

\* C2: a sale of q > stock units of an existing product leaves the product
\* table and the Sale table unchanged and flashes the insufficient-stock
\* message carrying the available stock.
InsufficientStockRejected ==
    [][\A p \in DOMAIN products, q \in QtyInputs :
          (q > products[p].stock_quantity /\ ProcessSale(p, q, TRUE)) =>
             /\ products' = products
             /\ sales' = sales
             /\ flash'.category = "danger"
             /\ flash'.text = "Stock insuffisant"
             /\ flash'.value = products[p].stock_quantity]_vars

\* a sale was rejected for a product that had 0 units or more, but too few
SaleRejectedForStock ==
    /\ flash.text = "Stock insuffisant"
    /\ flash.value >= 0
    /\ \E p \in DOMAIN products : products[p].stock_quantity = flash.value

\* C3: every step either leaves the Sale table alone, and then a process_sale
\* request has changed no product, or appends one Sale and takes exactly its
\* quantity_sold from the stock of its product, changing nothing else of the
\* product table.
SaleInsertAndDecrementTogether ==
    [][\/ /\ sales' = sales
          /\ (\E p \in IdInputs, q \in QtyInputs, ok \in BOOLEAN :
                 ProcessSale(p, q, ok)) => products' = products
       \/ /\ Len(sales') = Len(sales) + 1
          /\ SubSeq(sales', 1, Len(sales)) = sales
          /\ sales'[Len(sales')].product_id \in DOMAIN products
          /\ products' = [products EXCEPT
                ![sales'[Len(sales')].product_id].stock_quantity =
                    @ - sales'[Len(sales')].quantity_sold]]_vars

\* a sale of a product's whole stock has been committed
WholeStockSold ==
    /\ sales # <<>>
    /\ flash.text = "Vente enregistree"
    /\ LastSale.quantity_sold = MaxStock
    /\ LastSale.product_id \in DOMAIN products
    /\ products[LastSale.product_id].stock_quantity = 0

\* C4: right after a process_sale request that recorded a Sale, the stock of
\* the sold product is >= 0.
StockNonNegativeAfterSale ==
    (flash.text = "Vente enregistree") =>
        /\ sales # <<>>
        /\ LastSale.product_id \in DOMAIN products
        /\ products[LastSale.product_id].stock_quantity >= 0

\* a sale of a negative quantity was recorded and left the product at 0: the
\* stock was negative before it
NegativeStockSold ==
    /\ flash.text = "Vente enregistree"
    /\ sales # <<>>
    /\ LastSale.quantity_sold < 0
    /\ LastSale.product_id \in DOMAIN products
    /\ products[LastSale.product_id].stock_quantity = 0

DeleteRemovesFromInventory ==
    [][\A p \in DOMAIN products :
          DeleteProduct(p) =>
             ~ \E r \in InventoryListing(products') : r.id = p]_vars

\* C7: the dashboard renders, its weekly profit is the sum of profit_recorded
\* over the Sales with sale_date >= now - 7, and its weekly revenue is the sum
\* over the same Sales of quantity_sold times the selling price of the Sale's
\* product.
DashboardSumsTheWindow ==
    [][Dashboard =>
          LET ids == {i \in 1 .. Len(sales) : sales[i].sale_date >= now - 7}
              profit == [i \in ids |-> sales[i].profit_recorded]
              revenue == [i \in ids |->
                            sales[i].quantity_sold
                              * products[sales[i].product_id].selling_price]
          IN /\ view'.page = "dashboard"
             /\ view'.weekly_profit = SumOf(profit, ids)
             /\ view'.weekly_revenue = SumOf(revenue, ids)]_vars

\* the dashboard was rendered with two Sales recorded, one older than the
\* window and one exactly 7 days old, sold at a price that has changed since
DashboardAtWindowEdge ==
    /\ view.page = "dashboard"
    /\ Len(sales) = 2
    /\ sales[1].sale_date < now - 7
    /\ sales[2].sale_date = now - 7
    /\ view.weekly_profit = sales[2].profit_recorded
    /\ view.weekly_profit # 0
    /\ view.weekly_revenue # sales[2].quantity_sold + sales[2].profit_recorded

\* C8: every stored Sale has quantity_sold >= 1.
QuantitySoldPositive ==
    \A i \in 1 .. Len(sales) : sales[i].quantity_sold >= 1

\* C9: a concurrent process_sale request is checked only against the stock
\* it read: every request past its check asked for no more than the stock it
\* read, whatever the stock is by then, and every request that reached its
\* commit has its Sale recorded.
ConcurrentSaleCheckedAgainstStockRead ==
    /\ \A w \in Workers :
          pc[w] \in {"checked", "sold"} => local[w].quantity_sold <= local[w].stock_read
    /\ Cardinality({w \in Workers : pc[w] = "sold"}) = Len(sales)

\* both requests read the same stock of the same product, both passed the
\* check and both Sales are recorded, for more units than that stock held
BothSalesRecordedBeyondStock ==
    /\ \A w \in Workers : pc[w] = "sold" /\ local[w].quantity_sold >= 1
    /\ local["w1"].product_id = local["w2"].product_id
    /\ local["w1"].stock_read = local["w2"].stock_read
    /\ Len(sales) = 2
    /\ sales[1].quantity_sold + sales[2].quantity_sold > local["w1"].stock_read

\* C10: the product_id of every stored Sale is the id of an existing product,
\* and the dashboard never fails on a missing product.
SalesReferToExistingProducts ==
    /\ \A i \in 1 .. Len(sales) : sales[i].product_id \in DOMAIN products
    /\ view.page # "error500"

\* a delete_product request for an existing product with sales has failed
DeleteOfSoldProductFailed ==
    /\ flash.text = "Erreur lors de la suppression"
    /\ DOMAIN products = IdInputs
    /\ \A p \in IdInputs : ProductSales(sales, p) # {}

====
